---- MODULE Spec2Model ----
(***************************************************************************)
(* Model of models/utils/triangular.py: the Triangular distribution class. *)
(*                                                                         *)
(* Numbers are exact.  A value of the linear domain is an extended         *)
(* rational [k, n, d]: a fraction n/d in lowest terms, or +inf, -inf, nan, *)
(* with the IEEE rules jax.numpy follows for the special values.  A value  *)
(* of the log domain is [dom |-> "ln", v |-> q], which stands for the real *)
(* number ln(q), q an extended rational in [0, +inf] or nan; sums and      *)
(* differences of logarithms are products and quotients of the arguments,  *)
(* ln(0) is -inf.  The square root of cdfinv is kept as an exact surd.     *)
(***************************************************************************)
EXTENDS Integers, Sequences, FiniteSets, TLC

(* ------------------------------ bounds --------------------------------- *)
MaxVal == 4
XDen == 2
PDen == 4
MaxN == 1
MaxCalls == 2

Grid == 0..MaxVal
NameArgs == {<<>>, <<"T">>, <<"">>}

(* ----------------------- extended rational numbers --------------------- *)
Abs(i) == IF i < 0 THEN -i ELSE i

RECURSIVE GCD(_, _)
GCD(a, b) == IF b = 0 THEN a ELSE GCD(b, a % b)

PInf == [k |-> "pinf", n |-> 1, d |-> 0]
NInf == [k |-> "ninf", n |-> -1, d |-> 0]
NaN == [k |-> "nan", n |-> 0, d |-> 0]

Fin(n, d) ==
    LET s == IF d < 0 THEN -1 ELSE 1
        g == GCD(Abs(n), Abs(d))
    IN  [k |-> "fin", n |-> (s * n) \div g, d |-> (s * d) \div g]

Num(i) == Fin(i, 1)

IsNaN(a) == a.k = "nan"
IsInf(a) == a.k \in {"pinf", "ninf"}
Sign(a) == IF a.n > 0 THEN 1 ELSE IF a.n < 0 THEN -1 ELSE 0
Signed(s) == IF s > 0 THEN PInf ELSE NInf

Neg(a) == CASE a.k = "fin" -> Fin(-a.n, a.d)
            [] a.k = "pinf" -> NInf
            [] a.k = "ninf" -> PInf
            [] a.k = "nan" -> NaN

Add(a, b) ==
    IF IsNaN(a) \/ IsNaN(b) THEN NaN
    ELSE IF IsInf(a) /\ IsInf(b) THEN (IF a.k = b.k THEN a ELSE NaN)
    ELSE IF IsInf(a) THEN a
    ELSE IF IsInf(b) THEN b
    ELSE Fin(a.n * b.d + b.n * a.d, a.d * b.d)

Sub(a, b) == Add(a, Neg(b))

Mul(a, b) ==
    IF IsNaN(a) \/ IsNaN(b) THEN NaN
    ELSE IF IsInf(a) \/ IsInf(b)
         THEN (IF Sign(a) * Sign(b) = 0 THEN NaN ELSE Signed(Sign(a) * Sign(b)))
    ELSE Fin(a.n * b.n, a.d * b.d)

Div(a, b) ==
    IF IsNaN(a) \/ IsNaN(b) THEN NaN
    ELSE IF IsInf(a) /\ IsInf(b) THEN NaN
    ELSE IF IsInf(b) THEN Num(0)
    ELSE IF IsInf(a) THEN Signed(IF Sign(b) < 0 THEN -Sign(a) ELSE Sign(a))
    ELSE IF b.n = 0 THEN (IF a.n = 0 THEN NaN ELSE Signed(Sign(a)))
    ELSE Fin(a.n * b.d, a.d * b.n)

Sq(a) == Mul(a, a)

\* comparisons: every comparison with nan is false
Less(a, b) ==
    IF IsNaN(a) \/ IsNaN(b) THEN FALSE
    ELSE IF a.k = "pinf" \/ b.k = "ninf" THEN FALSE
    ELSE IF a.k = "ninf" \/ b.k = "pinf" THEN TRUE
    ELSE a.n * b.d < b.n * a.d

Eq(a, b) == ~IsNaN(a) /\ ~IsNaN(b) /\ a = b
LessEq(a, b) == Less(a, b) \/ Eq(a, b)
Greater(a, b) == Less(b, a)
GreaterEq(a, b) == LessEq(b, a)

(* ------------------------------ log domain ----------------------------- *)
Ln(q) == [dom |-> "ln", v |-> q]
Lin(x) == [dom |-> "lin", v |-> x]

\* jnp.log: -inf at 0, nan below 0
Log(a) == IF IsNaN(a) \/ Sign(a) < 0 THEN Ln(NaN) ELSE Ln(a)
LogAdd(l1, l2) == Ln(Mul(l1.v, l2.v))
LogSub(l1, l2) == Ln(Div(l1.v, l2.v))
LogTwice(l) == Ln(Sq(l.v))
LogNegInf == Ln(Num(0))
\* exp of a logarithm; the cascades return logarithms only
Exp(l) == CASE l.dom = "ln" -> l.v
LogLessEq(l1, l2) == LessEq(Exp(l1), Exp(l2))

Where(c, a, b) == IF c THEN a ELSE b

RECURSIVE CascadeFrom(_, _, _, _)
CascadeFrom(g, v, acc, i) ==
    IF i > Len(g) THEN acc
    ELSE CascadeFrom(g, v, Where(g[i], v[i], acc), i + 1)

\* a chain of jnp.where steps: step i overwrites the value where g[i] holds
Cascade(g, v, init) == CascadeFrom(g, v, init, 1)

(* ------------------------------- surds --------------------------------- *)
\* lax.sqrt: nan below 0
Sqrt(a) == IF IsNaN(a) \/ Sign(a) < 0 THEN NaN ELSE a
\* base + sign * sqrt(rad), rad already passed through Sqrt
Surd(base, sign, rad) == [base |-> base, sign |-> sign, rad |-> rad]
SurdEq(s, x) ==
    LET dlt == IF s.sign = 1 THEN Sub(x, s.base) ELSE Sub(s.base, x)
    IN  /\ s.rad.k = "fin"
        /\ x.k = "fin"
        /\ ~Less(dlt, Num(0))
        /\ Eq(Sq(dlt), s.rad)

(* ------------------------------- strings ------------------------------- *)
Digit(i) == CASE i = 0 -> "0" [] i = 1 -> "1" [] i = 2 -> "2" [] i = 3 -> "3"
              [] i = 4 -> "4" [] i = 5 -> "5" [] i = 6 -> "6" [] i = 7 -> "7"
              [] i = 8 -> "8" [] i = 9 -> "9"

RECURSIVE NatStr(_)
NatStr(i) == IF i < 10 THEN Digit(i) ELSE NatStr(i \div 10) \o Digit(i % 10)

\* str() of a Python int, as the f-string formats it
Str(i) == IF i < 0 THEN "-" \o NatStr(-i) ELSE NatStr(i)

(* -------------------------------- state -------------------------------- *)
VARIABLES
    args,       \* the positional arguments the constructor was called with
    low, mode, high,   \* self._low, self._mode, self._high
    name,       \* self._name: <<>> is None, <<s>> is the string s
    status,     \* "ok": constructed; "raised": the constructor raised
    lastOp,     \* the last method called on the object
    lastArg,    \* its argument
    result,     \* what it returned
    keyCalls,   \* number of get_key() calls so far
    rvsCalls    \* number of rvs() calls so far

vars == <<args, low, mode, high, name, status, lastOp, lastArg, result,
          keyCalls, rvsCalls>>

XGrid == {Fin(i, XDen) : i \in (-XDen)..((MaxVal + 1) * XDen)}
Counts == 0..MaxN

(* ------------------------------ the class ------------------------------ *)
\* mutant: the parameters bound in the order low, mode, high
Signature_LowModeHigh(p1, p2, p3, p4) ==
    [low |-> p1, mode |-> p2, high |-> p3, name |-> p4]

\* def __init__(self, low=0, high=1, mode=0.5, name=None)
Signature(p1, p2, p3, p4) == [low |-> p1, high |-> p2, mode |-> p3, name |-> p4]

\* mutant: the assertion mode <= high left out
check_params_NoUpper == low <= high /\ low <= mode

check_params == low <= high /\ low <= mode /\ mode <= high

\* mutant: the fourth guard excludes x = high
LogpdfGuards_StrictHigh(x) ==
    LET L == Num(low)  M == Num(mode)  H == Num(high)
    IN  << Less(x, L),
           LessEq(L, x) /\ Less(x, M),
           Eq(x, M),
           Less(M, x) /\ Less(x, H),
           Greater(x, H) >>

\* mutant: the second guard includes x = mode
LogpdfGuards_ClosedMode(x) ==
    LET L == Num(low)  M == Num(mode)  H == Num(high)
    IN  << Less(x, L),
           LessEq(L, x) /\ LessEq(x, M),
           Eq(x, M),
           Less(M, x) /\ LessEq(x, H),
           Greater(x, H) >>

LogpdfGuards(x) ==
    LET L == Num(low)  M == Num(mode)  H == Num(high)
    IN  << Less(x, L),
           LessEq(L, x) /\ Less(x, M),
           Eq(x, M),
           Less(M, x) /\ LessEq(x, H),
           Greater(x, H) >>

LogpdfValues(x) ==
    LET L == Num(low)  M == Num(mode)  H == Num(high)
    IN  << LogNegInf,
           LogSub(LogSub(LogAdd(Log(Num(2)), Log(Sub(x, L))), Log(Sub(H, L))),
                  Log(Sub(M, L))),
           LogSub(Log(Num(2)), Log(Sub(H, L))),
           LogSub(LogSub(LogAdd(Log(Num(2)), Log(Sub(H, x))), Log(Sub(H, L))),
                  Log(Sub(H, M))),
           LogNegInf >>

logpdf(x) == Cascade(LogpdfGuards(x), LogpdfValues(x), Lin(x))

LogcdfGuards(x) ==
    LET L == Num(low)  M == Num(mode)  H == Num(high)
    IN  << Less(x, L),
           LessEq(L, x) /\ Less(x, M),
           Eq(x, M),
           Less(M, x) /\ Less(x, H),
           GreaterEq(x, H) >>

LogcdfValues(x) ==
    LET L == Num(low)  M == Num(mode)  H == Num(high)
    IN  << LogNegInf,
           LogSub(LogSub(LogTwice(Log(Sub(x, L))), Log(Sub(H, L))),
                  Log(Sub(M, L))),
           Log(Fin(1, 2)),
           Log(Sub(Num(1),
                   Div(Sq(Sub(H, x)), Mul(Sub(H, L), Sub(H, M))))),
           Log(Num(1)) >>

\* mutant: the step for x == mode applied last
logcdf_ModeLast(x) ==
    LET g == LogcdfGuards(x)
        v == LogcdfValues(x)
    IN  Cascade(<<g[1], g[2], g[4], g[5], g[3]>>, <<v[1], v[2], v[4], v[5], v[3]>>,
                Lin(x))

logcdf(x) == Cascade(LogcdfGuards(x), LogcdfValues(x), Lin(x))

\* ContinuousRV.cdf: exp(logcdf(x))
cdf(x) == Exp(logcdf(x))

cdfinv(x) ==
    LET L == Num(low)  M == Num(mode)  H == Num(high)
        Fc == cdf(M)
    IN  Where(Less(x, Fc),
              Surd(L, 1, Sqrt(Mul(Mul(x, Sub(M, L)), Sub(H, L)))),
              Surd(H, -1, Sqrt(Mul(Mul(Sub(Num(1), x), Sub(H, L)), Sub(H, M)))))

\* mutant: the name clause added when the name is truthy
repr_Truthy ==
    LET string == "Triangular(low=" \o Str(low) \o ", mode=" \o Str(mode)
                    \o ", high=" \o Str(high)
        named == IF name # <<>> /\ name[1] # ""
                 THEN string \o ", name=" \o name[1] ELSE string
    IN  named \o ")"

repr ==
    LET string == "Triangular(low=" \o Str(low) \o ", mode=" \o Str(mode)
                    \o ", high=" \o Str(high)
        named == IF name # <<>> THEN string \o ", name=" \o name[1] ELSE string
    IN  named \o ")"

\* jax.random.triangular(key, left, mode, right, shape=(N,)): N draws in
\* [left, right]; the draws are taken among the three parameter points
Draws(N) == [1..N -> {Num(low), Num(mode), Num(high)}]

ProbInputs == {cdf(x) : x \in XGrid} \cup {Fin(i, PDen) : i \in 0..PDen}

(* ------------------------------ behaviour ------------------------------ *)
\* Triangular(p1, p2, p3, p4): store the parameters, validate, store the name
Init ==
    \E p1 \in Grid, p2 \in Grid, p3 \in Grid, p4 \in NameArgs :
        LET b == Signature(p1, p2, p3, p4) IN
        /\ args = <<p1, p2, p3, p4>>
        /\ low = b.low
        /\ mode = b.mode
        /\ high = b.high
        /\ status = IF check_params THEN "ok" ELSE "raised"
        /\ name = IF check_params THEN b.name ELSE <<>>
        /\ lastOp = "__init__"
        /\ lastArg = Num(0)
        /\ result = "none"
        /\ keyCalls = 0
        /\ rvsCalls = 0

CheckParams ==
    /\ status = "ok"
    /\ lastOp' = "check_params"
    /\ lastArg' = Num(0)
    /\ result' = IF check_params THEN "none" ELSE "AssertionError"
    /\ UNCHANGED <<args, low, mode, high, name, status, keyCalls, rvsCalls>>

Logpdf(x) ==
    /\ status = "ok"
    /\ lastOp' = "logpdf"
    /\ lastArg' = x
    /\ result' = logpdf(x)
    /\ UNCHANGED <<args, low, mode, high, name, status, keyCalls, rvsCalls>>

\* mutant: logcdf rescales the stored upper bound in place
Logcdf_InPlace(x) ==
    /\ status = "ok"
    /\ lastOp' = "logcdf"
    /\ lastArg' = x
    /\ result' = logcdf(x)
    /\ high' = high - low
    /\ UNCHANGED <<args, low, mode, name, status, keyCalls, rvsCalls>>

Logcdf(x) ==
    /\ status = "ok"
    /\ lastOp' = "logcdf"
    /\ lastArg' = x
    /\ result' = logcdf(x)
    /\ UNCHANGED <<args, low, mode, high, name, status, keyCalls, rvsCalls>>

Cdfinv(p) ==
    /\ status = "ok"
    /\ lastOp' = "cdfinv"
    /\ lastArg' = p
    /\ result' = cdfinv(p)
    /\ UNCHANGED <<args, low, mode, high, name, status, keyCalls, rvsCalls>>

\* mutant: rvs draws a second key
Rvs_TwoKeys(N) ==
    /\ status = "ok"
    /\ rvsCalls < MaxCalls
    /\ lastOp' = "rvs"
    /\ lastArg' = Num(N)
    /\ keyCalls' = keyCalls + 2
    /\ rvsCalls' = rvsCalls + 1
    /\ result' \in Draws(N)
    /\ UNCHANGED <<args, low, mode, high, name, status>>

Rvs(N) ==
    /\ status = "ok"
    /\ rvsCalls < MaxCalls
    /\ lastOp' = "rvs"
    /\ lastArg' = Num(N)
    /\ keyCalls' = keyCalls + 1
    /\ rvsCalls' = rvsCalls + 1
    /\ result' \in Draws(N)
    /\ UNCHANGED <<args, low, mode, high, name, status>>

Repr ==
    /\ status = "ok"
    /\ lastOp' = "__repr__"
    /\ lastArg' = Num(0)
    /\ result' = repr
    /\ UNCHANGED <<args, low, mode, high, name, status, keyCalls, rvsCalls>>

Next ==
    \/ CheckParams
    \/ \E x \in XGrid : Logpdf(x)
    \/ \E x \in XGrid : Logcdf(x)
    \/ \E p \in ProbInputs : Cdfinv(p)
    \/ \E N \in Counts : Rvs(N)
    \/ Repr

Spec == Init /\ [][Next]_vars

(* ------------------------------ properties ----------------------------- *)
Ordered == low <= mode /\ mode <= high
TrueGuards(g) == {i \in DOMAIN g : g[i]}
Reverse(q) == [i \in 1..Len(q) |-> q[Len(q) + 1 - i]]
LnHalf == Ln(Fin(1, 2))
LnOne == Ln(Num(1))
LnTwo == Ln(Num(2))

\* C1: construction succeeds exactly when low <= mode <= high; a constructor
\* that raised produced no object: nothing was stored as name and no method
\* ever ran.
C1_ConstructIffOrdered ==
    /\ status \in {"ok", "raised"}
    /\ (status = "ok") <=> Ordered
    /\ (status = "raised") => (lastOp = "__init__" /\ name = <<>> /\ result = "none")

C1_Witness == status = "raised" /\ low <= high /\ low <= mode /\ mode > high

\* the density table of the specification, one case per row
C2_Table(x) ==
    LET L == Num(low)  M == Num(mode)  H == Num(high)
    IN  CASE Less(x, L) \/ Less(H, x) -> Ln(Num(0))
          [] LessEq(L, x) /\ Less(x, M) ->
               LogSub(LogSub(LogAdd(LnTwo, Ln(Sub(x, L))), Ln(Sub(H, L))), Ln(Sub(M, L)))
          [] x = M /\ LessEq(L, x) /\ LessEq(x, H) -> LogSub(LnTwo, Ln(Sub(H, L)))
          [] Less(M, x) /\ LessEq(x, H) ->
               LogSub(LogSub(LogAdd(LnTwo, Ln(Sub(H, x))), Ln(Sub(H, L))), Ln(Sub(H, M)))

\* C2: logpdf returns, for every input, the value the density table gives for
\* the row the input falls in, and that value is a logarithm, not an error.
C2_LogpdfIsTable ==
    lastOp = "logpdf" => (result = C2_Table(lastArg) /\ result.dom = "ln")

C2_Witness ==
    /\ lastOp = "logpdf"
    /\ lastArg = Num(high)
    /\ mode < high
    /\ result = LogNegInf

\* C3 as stated: for every accepted triple logcdf(low) = -inf,
\* logcdf(mode) = ln 0.5 and logcdf(high) = 0.
C3_Original ==
    lastOp = "logcdf" =>
        /\ lastArg = Num(low) => result = LogNegInf
        /\ lastArg = Num(mode) => result = LnHalf
        /\ lastArg = Num(high) => result = LnOne

\* C3 amended: logcdf(high) = 0 always; logcdf(mode) = ln 0.5 when mode < high
\* and 0 when mode = high; logcdf(low) = -inf when low < mode, and the value at
\* the mode when low = mode.
C3_Amended ==
    lastOp = "logcdf" =>
        /\ lastArg = Num(high) => result = LnOne
        /\ (lastArg = Num(mode) /\ mode < high) => result = LnHalf
        /\ (lastArg = Num(low) /\ low < mode) => result = LogNegInf

C3_Witness ==
    /\ lastOp = "logcdf"
    /\ lastArg = Num(mode)
    /\ low < mode
    /\ mode = high
    /\ result = LnOne

\* C4: logcdf is non-decreasing: the value returned at x1 is at most the
\* value at every x2 >= x1.
C4_Monotone ==
    lastOp = "logcdf" =>
        \A x2 \in XGrid : LessEq(lastArg, x2) => LogLessEq(result, logcdf(x2))

\* C5: round trip: cdfinv(cdf(x)) = x for every x strictly between low and
\* high.
C5_RoundTrip ==
    lastOp = "cdfinv" =>
        \A x \in XGrid :
            (Less(Num(low), x) /\ Less(x, Num(high)) /\ lastArg = cdf(x))
                => SurdEq(result, x)

\* C6: the stored parameters are those given at construction after any
\* sequence of calls, so they stay ordered and a repeated check_params
\* succeeds.
C6_ParamsImmutable ==
    status = "ok" =>
        /\ <<low, high, mode>> = <<args[1], args[2], args[3]>>
        /\ Ordered
        /\ lastOp = "check_params" => result = "none"

C6_Witness == lastOp = "check_params" /\ rvsCalls > 0 /\ low < mode /\ mode < high

\* C7: get_key is called once per rvs call and by nothing else, and rvs(N)
\* returns N draws.
C7_KeyPerRvs ==
    /\ keyCalls = rvsCalls
    /\ lastOp = "rvs" => Len(result) = lastArg.n

C7_Witness == lastOp = "rvs" /\ rvsCalls = 2 /\ Len(result) = 1 /\ low < high

\* C8 as stated: positional (a, b, c) is stored as low = a, mode = b,
\* high = c, and succeeds when a <= b <= c.
C8_Original ==
    /\ <<low, mode, high>> = <<args[1], args[2], args[3]>>
    /\ (args[1] <= args[2] /\ args[2] <= args[3]) => status = "ok"

\* C8 amended: positional (a, b, c) is stored as low = a, high = b, mode = c,
\* and succeeds exactly when a <= c <= b.
C8_Amended ==
    /\ <<low, high, mode>> = <<args[1], args[2], args[3]>>
    /\ (status = "ok") <=> (args[1] <= args[3] /\ args[3] <= args[2])

C8_Witness == status = "ok" /\ args[1] < args[3] /\ args[3] < args[2]

\* C9: __repr__ is 'Triangular(low=.., mode=.., high=..' then ', name=..'
\* exactly when a name was given, then ')'.
C9_ReprFormat ==
    lastOp = "__repr__" =>
        /\ result = "Triangular(low=" \o ToString(low) \o ", mode=" \o ToString(mode)
                      \o ", high=" \o ToString(high)
                      \o (IF name = <<>> THEN "" ELSE ", name=" \o name[1]) \o ")"
        /\ (<<low, mode, high>> = <<0, 2, 4>> /\ name = <<>>)
              => result = "Triangular(low=0, mode=2, high=4)"
        /\ (<<low, mode, high>> = <<0, 2, 4>> /\ name = <<"T">>)
              => result = "Triangular(low=0, mode=2, high=4, name=T)"

C9_Witness ==
    /\ lastOp = "__repr__"
    /\ name = <<"">>
    /\ result = "Triangular(low=0, mode=2, high=4, name=)"

\* C10 as stated: exactly one guard of logpdf and exactly one guard of logcdf
\* holds for every input.
C10_Original ==
    /\ lastOp = "logpdf" => Cardinality(TrueGuards(LogpdfGuards(lastArg))) = 1
    /\ lastOp = "logcdf" => Cardinality(TrueGuards(LogcdfGuards(lastArg))) = 1

\* C10 amended: exactly one guard of logpdf holds; exactly one guard of logcdf
\* holds unless x = mode = high, where the guards x == mode and x >= high both
\* hold and the later step decides (the result is 0); in every other case the
\* result does not depend on the order of the steps, and the placeholder is
\* never returned.
C10_Amended ==
    /\ lastOp = "logpdf" =>
          /\ Cardinality(TrueGuards(LogpdfGuards(lastArg))) = 1
          /\ result = Cascade(Reverse(LogpdfGuards(lastArg)),
                              Reverse(LogpdfValues(lastArg)), Lin(lastArg))
          /\ result.dom = "ln"
    /\ lastOp = "logcdf" =>
          /\ result.dom = "ln"
          /\ IF lastArg = Num(mode) /\ mode = high
             THEN TrueGuards(LogcdfGuards(lastArg)) = {3, 5} /\ result = LnOne
             ELSE /\ Cardinality(TrueGuards(LogcdfGuards(lastArg))) = 1
                  /\ result = Cascade(Reverse(LogcdfGuards(lastArg)),
                                      Reverse(LogcdfValues(lastArg)), Lin(lastArg))

C10_Witness ==
    /\ lastOp = "logcdf"
    /\ lastArg = Num(mode)
    /\ low = mode
    /\ mode = high
    /\ TrueGuards(LogcdfGuards(lastArg)) = {3, 5}

====
